---- MODULE Spec2Model ----
(***************************************************************************)
(* A model of the League of Legends match-history collector:              *)
(*   src/main.py        the collection run (roster loop, reload, fetch)   *)
(*   src/collection.py  Collection: roster load and the fetch phase       *)
(*   src/user.py        User: identity, discovery, delta, fetch_match     *)
(*   src/utils.py       helpers                                           *)
(*                                                                         *)
(* The file system under data/raw and the remote API are the environment. *)
(* Every HTTP request and every file-system write is one step, so that an *)
(* interruption of the process can fall between any two of them.          *)
(***************************************************************************)
EXTENDS Integers, Sequences, FiniteSets, TLC

(***************************************************************************)
(* Bounds of the model                                                     *)
(***************************************************************************)
\* Process starts (collection runs) in one behaviour.
MaxRuns == 2
\* Method calls made by a client of the User class in one behaviour.
MaxCalls == 2
\* Size of the longest match listing the remote keeps for one queue.
MaxListing == 300
\* Sets up to this size are listed in every order by list(set(...)).
MaxPermSize == 3
\* Match numbers that can have a file in a matchs folder.
MaxIds == 3
\* The number of known, unfetched matches of a player with a backlog.
MaxBacklog == 250

(***************************************************************************)
(* Program constants                                                       *)
(***************************************************************************)
\* count=100 of the listing URL
PageCount == 100
\* len(req.json()) == 100
FullPage == 100
\* start_index + 100
PageStep == 100
\* request_count % 100
BatchSize == 100
\* time.sleep(120)
SleepSeconds == 120
\* HTTP status codes the code distinguishes
StatusOk == 200
StatusNotFound == 404
StatusRateLimited == 429
StatusServerError == 500

StatusCodes == {StatusOk, StatusNotFound, StatusRateLimited, StatusServerError}

\* for queue in [400, 420, 430, 440, 450]
Queues == <<400, 420, 430, 440, 450>>

QueueSet == {Queues[k] : k \in 1..Len(Queues)}

(***************************************************************************)
(* Values                                                                  *)
(***************************************************************************)
Min(a, b) == IF a <= b THEN a ELSE b

ToSet(s) == {s[k] : k \in 1..Len(s)}

\* A match id "<prefix>_<number>" as the remote reports it.
MatchIdOf(pfx, n) == pfx \o "_" \o ToString(n)

Id(n) == MatchIdOf("EUW1", n)

\* The three ids of the small scenarios.
A == Id(1)
B == Id(2)
C == Id(3)

\* The configured accounts (account_list.json), in file order.
H1 == [name |-> "ann", tag |-> "EUW"]
H2 == [name |-> "bob", tag |-> "NA1"]

list_summoners == <<H1, H2>>

Handles == ToSet(list_summoners)

\* The player id the remote resolves a handle to.
PuuidOf(h) == "puuid-" \o h.name

NoPuuid == ""

NoRiotId == [name |-> "", tag |-> ""]

\* folder_name = riot_id["summoners_name"] + "#" + riot_id["summoners_tag"]
FolderName(riot_id) == riot_id.name \o "#" \o riot_id.tag

FolderNames == {FolderName(h) : h \in Handles}

\* The instance attributes User.__init__ sets.
UserAttributes ==
    {"summoners_name", "summoners_tag", "summoners_region",
     "encoded_summoners_name", "encoded_summoners_tag", "puuid", "matches_list"}

\* A User object: its attribute names and the values the model follows.
User(riot_id, puuid, matches_list) ==
    [attrs |-> UserAttributes, riot_id |-> riot_id, puuid |-> puuid,
     matches_list |-> matches_list]

\* The match ids a User object knows.
KnownIds(user) == ToSet(user.matches_list)

NoUser == [attrs |-> {}, riot_id |-> NoRiotId, puuid |-> NoPuuid, matches_list |-> <<>>]

(***************************************************************************)
(* The file system under data/raw                                          *)
(***************************************************************************)
\* identity.json: absent, opened for writing and not yet written, or written.
NoIdentity == [state |-> "absent", riot_id |-> NoRiotId, puuid |-> NoPuuid, matches_list |-> <<>>]

TruncatedIdentity == [NoIdentity EXCEPT !.state = "truncated"]

\* json.dump(self.__dict__, json_file)
IdentityOf(user) ==
    [state |-> "ok", riot_id |-> user.riot_id, puuid |-> user.puuid,
     matches_list |-> user.matches_list]

\* A player folder: the folder itself, identity.json, the matchs folder and the
\* files in it, each a name and whether its content was written completely.
NoFolder == [exists |-> FALSE, identity |-> NoIdentity, matchs |-> FALSE, files |-> {}]

\* The folder of a player whose identity is saved, with its matchs folder.
LoadedFolder(user, files) ==
    [exists |-> TRUE, identity |-> IdentityOf(user), matchs |-> TRUE, files |-> files]

\* f"{match_id}.json"
MatchFileName(match_id) == match_id \o ".json"

FileNames(folder) == {f.name : f \in folder.files}

(***************************************************************************)
(* Pure functions of the code                                              *)
(***************************************************************************)
\* The strings the file-name patterns are tried on.
NameParts == {h.name : h \in Handles}

TagParts == {h.tag : h \in Handles}

FilePrefixes == {"EUW1", "EUROPE"}

FileNumbers == 1..MaxIds

\* re.compile(r"^.{0,20}#.{2,6}$") matched on a directory name
RosterPattern(file) ==
    \E n \in NameParts, t \in TagParts :
        /\ file = n \o "#" \o t
        /\ Len(n) <= 20
        /\ Len(t) >= 2 /\ Len(t) <= 6

\* re.compile(r"^[a-zA-Z0-9]{2,5}_[0-9]+\.json$") matched on a file name
MatchFilePattern(file) ==
    \E p \in FilePrefixes, n \in FileNumbers :
        /\ file = p \o "_" \o ToString(n) \o ".json"
        /\ Len(p) >= 2 /\ Len(p) <= 5

\* file.split(".json")[0] of a file name the pattern matched
SplitJson(file) ==
    CHOOSE stem \in {MatchIdOf(p, n) : p \in FilePrefixes, n \in FileNumbers} :
        stem \o ".json" = file

\* already_fetched_files of find_unfetched_matchs: the listing of the matchs folder,
\* whatever the content of the files
AlreadyFetchedFiles(folder) ==
    {SplitJson(file) : file \in {g \in FileNames(folder) : MatchFilePattern(g)}}

HasAttr(self, name) == name \in self.attrs

\* User.find_unfetched_matchs: os.listdir of the matchs folder, then the loop over
\* self.flex_matchs_list + self.solo_duo_matchs_list
find_unfetched_matchs(self, folder) ==
    IF ~folder.matchs
    THEN [raised |-> "FileNotFoundError", value |-> <<>>]
    ELSE IF ~(HasAttr(self, "flex_matchs_list") /\ HasAttr(self, "solo_duo_matchs_list"))
    THEN [raised |-> "AttributeError", value |-> <<>>]
    ELSE [raised |-> "",
          value |-> SelectSeq(self.flex_matchs_list \o self.solo_duo_matchs_list,
                              LAMBDA match : match \notin AlreadyFetchedFiles(folder))]

\* The orders in which a set can be listed.
Perms(S) ==
    {f \in [1..Cardinality(S) -> S] : \A x \in S : \E k \in 1..Cardinality(S) : f[k] = x}

\* The elements of s once each, in the order of their first occurrence.
Dedup(s) ==
    LET First(k) == \A j \in 1..(k - 1) : s[j] # s[k]
        kept == SelectSeq([k \in 1..Len(s) |-> k], First)
    IN  [n \in 1..Len(kept) |-> s[kept[n]]]

Reverse(s) == [k \in 1..Len(s) |-> s[Len(s) + 1 - k]]

\* list(set(items)): the elements once each, in an order the interpreter chooses
\* (every order of a small set, two orders of a large one).
ListOfSet(items) ==
    IF Cardinality(ToSet(items)) <= MaxPermSize
    THEN Perms(ToSet(items))
    ELSE {Dedup(items), Reverse(Dedup(items))}

\* self.matches_list + newly_feched_matches, before list(set(...))
MergedMatches(matches_list, newly_feched_matches) ==
    matches_list \o newly_feched_matches

\* A pagination that goes on until a page is empty.
IsFullPage_nonempty(page) == Len(page) > 0

\* len(req.json()) == 100
IsFullPage(page) == Len(page) = FullPage

\* start_index=start_index + 100
NextStartIndex(start_index) == start_index + PageStep

(***************************************************************************)
(* The remote API                                                          *)
(***************************************************************************)
\* A player no queue lists a match of.
EmptyRemote == [queue \in QueueSet |-> <<>>]

\* The listing endpoint: at most count ids of the queue's listing from start on.
RemotePage(listing, start, count) ==
    SubSeq(listing, start + 1, Min(start + count, Len(listing)))

(***************************************************************************)
(* State                                                                   *)
(***************************************************************************)
VARIABLES
    mode,           \* "main": runs of main.py; "user": a client calling User methods
    refresh_user,   \* main.py: os.getenv("AUTO_REFRESH_USER")
    request_count,  \* fetch_collection_matchs: request_count
    pc,             \* where the process is
    runs,           \* process starts so far
    calls,          \* method calls the client has made so far
    disk,           \* data/raw: folder name -> player folder
    remote,         \* the remote's match listing: folder name -> queue -> ids
    user_paths,     \* Collection.user_paths (the keys)
    user_objects,   \* Collection.user_objects: folder name -> User
    player,         \* the User object main.py is constructing
    idx,            \* position of main.py's loop in list_summoners
    frame,          \* the method running and the player it runs for
    disc,           \* get_all_matches / get_matches_by_queue: locals
    todo,           \* fetch_collection_matchs: the users still to visit, in order
    log,            \* requests issued and pauses taken, in order
    err,            \* the exception raised last, if any
    before,         \* matches_list and identity.json when refresh_user_matches was called
    discovered,     \* what the last completed get_all_matches returned
    returned        \* what the client's last call of find_unfetched_matchs returned

vars == <<mode, refresh_user, request_count, pc, runs, calls, disk, remote, user_paths, user_objects, player,
          idx, frame, disc, todo, log, err, before, discovered, returned>>

\* What os.getenv returns: None, or the string the variable is set to.
PyNone == [type |-> "NoneType", value |-> ""]

PyStr(s) == [type |-> "str", value |-> s]

EnvValues == {PyNone, PyStr("1")}

\* No call of find_unfetched_matchs has returned.
NoReturn == [called |-> FALSE, raised |-> "", value |-> <<>>]

NoObjects == [f \in {} |-> NoUser]

NoError == [kind |-> "", status |-> 0]

Exception(status) == [kind |-> "Exception", status |-> status]

NoFrame == [op |-> "", who |-> "", match |-> ""]

\* matches_list = [] of get_all_matches
EmptyMatchesList == <<>>

\* An accumulator shared by the queues.
EmptyAccumulator_shared(matches_list) == matches_list

\* matchs_list=[] passed to get_matches_by_queue for each queue
EmptyAccumulator(matches_list) == <<>>

\* start_index=0 passed to get_matches_by_queue for each queue
FirstStartIndex == 0

\* The locals of get_all_matches at its first queue; results keeps, per queue
\* finished, what get_matches_by_queue returned.
DiscStart ==
    [qi |-> 1, start_index |-> FirstStartIndex,
     matchs_list |-> EmptyAccumulator(EmptyMatchesList),
     matches_list |-> EmptyMatchesList, results |-> <<>>]

NoDisc == [qi |-> 0, start_index |-> 0, matchs_list |-> <<>>, matches_list |-> <<>>,
           results |-> <<>>]

\* One entry of the log.
Event(kind, who, queue, start, match, status) ==
    [kind |-> kind, who |-> who, queue |-> queue, start |-> start, match |-> match,
     status |-> status]

\* Nothing discovered yet.
NoDiscovery == [who |-> "", matches_list |-> <<>>, results |-> <<>>]

\* Nothing remembered of a call.
NoBefore == [matches_list |-> <<>>, identity |-> NoIdentity]

\* A failure that keeps the pages received so far.
Raise_merging(e) ==
    /\ err' = e
    /\ frame' = NoFrame
    /\ disc' = NoDisc
    /\ pc' = IF mode = "main" THEN "aborted" ELSE "idle"
    /\ user_objects' =
          IF frame.who \in DOMAIN user_objects
          THEN [user_objects EXCEPT ![frame.who].matches_list =
                    Dedup(@ \o disc.matches_list \o disc.matchs_list)]
          ELSE user_objects
    /\ UNCHANGED <<user_paths, player, idx, todo>>

\* A failure that lets a creation save the player it has built so far.
Raise_saving(e) ==
    /\ err' = e
    /\ frame' = frame
    /\ disc' = NoDisc
    /\ pc' = IF mode = "main"
              THEN (IF frame.op = "create" THEN "save_mkdir" ELSE "aborted")
              ELSE "idle"
    /\ UNCHANGED <<user_paths, user_objects, player, idx, todo>>

\* An uncaught exception ends a run of main.py, and with it the process memory;
\* a client of the class gets it back from the call.
Raise(e) ==
    /\ err' = e
    /\ frame' = NoFrame
    /\ disc' = NoDisc
    /\ IF mode = "main"
       THEN /\ pc' = "aborted"
            /\ user_paths' = {}
            /\ user_objects' = NoObjects
            /\ player' = NoUser
            /\ idx' = 0
            /\ todo' = <<>>
       ELSE /\ pc' = "idle"
            /\ UNCHANGED <<user_paths, user_objects, player, idx, todo>>

(***************************************************************************)
(* Discovery: User.get_all_matches and User.get_matches_by_queue           *)
(***************************************************************************)
\* A refresh that keeps only what the remote lists now.
refresh_user_matches_replacing(matches_list, newly_feched_matches) ==
    ListOfSet(newly_feched_matches)

\* refresh_user_matches: the lists self.matches_list can become
refresh_user_matches(matches_list, newly_feched_matches) ==
    ListOfSet(MergedMatches(matches_list, newly_feched_matches))

\* What the caller of get_all_matches does with the list it returns: User.__init__
\* keeps it as it is and main.py goes on to save(); refresh_user_matches merges it.
ReturnMatches(matches_list, results) ==
    /\ discovered' = [who |-> frame.who, matches_list |-> matches_list,
                       results |-> results]
    /\ disc' = NoDisc
    /\ err' = NoError
    /\ UNCHANGED <<user_paths, idx, todo>>
    /\ IF frame.op = "create"
       THEN /\ player' = User(player.riot_id, player.puuid, matches_list)
            /\ pc' = "save_mkdir"
            /\ UNCHANGED <<user_objects, frame>>
       ELSE /\ \E merged \in refresh_user_matches(user_objects[frame.who].matches_list,
                                                  matches_list) :
                   user_objects' = [user_objects EXCEPT ![frame.who].matches_list = merged]
            /\ player' = player
            /\ IF mode = "main"
               THEN pc' = "save_mkdir" /\ frame' = frame
               ELSE pc' = "idle" /\ frame' = NoFrame

\* One call of get_matches_by_queue: the request, and what follows the response.
ListingRequest ==
    /\ pc = "listing"
    /\ \E status \in StatusCodes :
        LET queue == Queues[disc.qi]
            page == RemotePage(remote[frame.who][queue], disc.start_index, PageCount)
            matchs_list == disc.matchs_list \o page
            matches_list == disc.matches_list \o matchs_list
        IN  /\ log' = Append(log, Event("listing", frame.who, queue, disc.start_index, "", status))
            /\ IF status # StatusOk
               THEN Raise(Exception(status)) /\ discovered' = discovered
               ELSE IF IsFullPage(page)
               THEN /\ disc' = [disc EXCEPT !.start_index = NextStartIndex(disc.start_index),
                                            !.matchs_list = matchs_list]
                    /\ pc' = "listing"
                    /\ UNCHANGED <<user_paths, user_objects, player, idx, frame, todo,
                                   err, discovered>>
               ELSE IF disc.qi < Len(Queues)
               THEN /\ disc' = [qi |-> disc.qi + 1,
                                start_index |-> FirstStartIndex,
                                matchs_list |-> EmptyAccumulator(matches_list),
                                matches_list |-> matches_list,
                                results |-> Append(disc.results, matchs_list)]
                    /\ pc' = "listing"
                    /\ UNCHANGED <<user_paths, user_objects, player, idx, frame, todo,
                                   err, discovered>>
               ELSE ReturnMatches(matches_list, Append(disc.results, matchs_list))
    /\ UNCHANGED <<mode, returned, refresh_user, request_count, runs, calls, disk, remote, before>>

(***************************************************************************)
(* User.save                                                               *)
(***************************************************************************)
\* The object save() runs on.
SavedUser == IF frame.op = "create" THEN player ELSE user_objects[frame.who]

\* create_user_folder_if_missing: os.mkdir unless the folder exists
SaveMkdir ==
    /\ pc = "save_mkdir"
    /\ disk' = [disk EXCEPT ![frame.who].exists = TRUE]
    /\ pc' = "save_open"
    /\ UNCHANGED <<mode, returned, refresh_user, request_count, runs, calls,
                   remote, user_paths, user_objects, player, idx,
                   frame, disc, todo, log, err, before, discovered>>

\* open(saving_path, "w+"): identity.json exists and is empty
SaveOpen ==
    /\ pc = "save_open"
    /\ disk' = [disk EXCEPT ![frame.who].identity = TruncatedIdentity]
    /\ pc' = "save_dump"
    /\ UNCHANGED <<mode, returned, refresh_user, request_count, runs, calls,
                   remote, user_paths, user_objects, player, idx,
                   frame, disc, todo, log, err, before, discovered>>

\* json.dump(self.__dict__, json_file) and the close of the file; then main.py's
\* loop goes to the next summoner, and a client gets the call back.
SaveDump ==
    /\ pc = "save_dump"
    /\ disk' = [disk EXCEPT ![frame.who].identity = IdentityOf(SavedUser)]
    /\ frame' = NoFrame
    /\ IF mode = "main"
       THEN pc' = "loop" /\ idx' = idx + 1 /\ player' = NoUser
       ELSE pc' = "idle" /\ idx' = idx /\ player' = player
    /\ UNCHANGED <<mode, returned, refresh_user, request_count, runs, calls, remote, user_paths, user_objects,
                   disc, todo, log, err, before, discovered>>

(***************************************************************************)
(* A client of the User class                                              *)
(***************************************************************************)
CallRefresh ==
    /\ mode = "user" /\ pc = "idle" /\ calls < MaxCalls
    /\ \E who \in DOMAIN user_objects :
        /\ frame' = [op |-> "refresh", who |-> who, match |-> ""]
        /\ before' = [matches_list |-> user_objects[who].matches_list,
                       identity |-> disk[who].identity]
    /\ disc' = DiscStart
    /\ pc' = "listing"
    /\ calls' = calls + 1
    /\ log' = <<>>
    /\ err' = NoError
    /\ UNCHANGED <<mode, returned, refresh_user, request_count, runs, disk,
                   remote, user_paths, user_objects, player, idx,
                   todo, discovered>>

CallSave ==
    /\ mode = "user" /\ pc = "idle" /\ calls < MaxCalls
    /\ \E who \in DOMAIN user_objects : frame' = [op |-> "save", who |-> who, match |-> ""]
    /\ pc' = "save_mkdir"
    /\ calls' = calls + 1
    /\ log' = <<>>
    /\ err' = NoError
    /\ UNCHANGED <<mode, returned, refresh_user, request_count, runs, disk,
                   remote, user_paths, user_objects, player, idx,
                   disc, todo, before, discovered>>

(***************************************************************************)
(* Collection: the roster load and the fetch phase                         *)
(***************************************************************************)
\* An identity loaded without its match list.
load_from_json_without_matches(identity) ==
    User(identity.riot_id, identity.puuid, <<>>)

\* An identity loaded without its uid.
load_from_json_without_puuid(identity) ==
    User(identity.riot_id, NoPuuid, identity.matches_list)

\* User.load_from_json of an identity.json that json.load can read
load_from_json(identity) ==
    User(identity.riot_id, identity.puuid, identity.matches_list)

\* The exception load_from_json raises on the identity.json of a folder, if any.
LoadError(folder) ==
    IF folder.identity.state = "absent" THEN "FileNotFoundError"
    ELSE IF folder.identity.state = "truncated" THEN "JSONDecodeError"
    ELSE ""

\* refresh_collection: the directories of data/raw with the name of a player
RosterFolders == {f \in FolderNames : disk[f].exists /\ RosterPattern(f)}

\* Collection.refresh_collection, called by Collection.__init__ when the run starts
\* and by main.py after its loop over the configured summoners.
RefreshCollection ==
    /\ mode = "main"
    /\ pc \in {"boot", "reload"}
    /\ IF \E f \in RosterFolders : LoadError(disk[f]) # ""
       THEN /\ \E f \in RosterFolders :
                 /\ LoadError(disk[f]) # ""
                 /\ Raise([kind |-> LoadError(disk[f]), status |-> 0])
            /\ UNCHANGED request_count
       ELSE /\ user_paths' = RosterFolders
            /\ user_objects' = [f \in RosterFolders |-> load_from_json(disk[f].identity)]
            /\ IF pc = "boot"
               THEN /\ pc' = "loop"
                    /\ idx' = 1
                    /\ todo' = <<>>
                    /\ request_count' = request_count
               ELSE /\ pc' = "fetch"
                    /\ idx' = idx
                    /\ todo' \in Perms(RosterFolders)
                    /\ request_count' = 0
            /\ UNCHANGED <<player, frame, disc, err>>
    /\ UNCHANGED <<mode, returned, refresh_user, runs, calls, disk, remote, log, before, discovered>>

\* refresh_user == 1
AutoRefresh(value) == value.type = "int" /\ value.value = 1

\* One turn of main.py's loop over list_summoners, up to its first request.
MainLoop ==
    /\ mode = "main"
    /\ pc = "loop"
    /\ IF idx > Len(list_summoners)
       THEN /\ pc' = "reload"
            /\ UNCHANGED <<player, idx, frame, disc, before>>
       ELSE LET riot_id == list_summoners[idx]
                folder_name == FolderName(riot_id)
            IN  IF folder_name \notin user_paths
                THEN /\ player' = [NoUser EXCEPT !.riot_id = riot_id]
                     /\ frame' = [op |-> "create", who |-> folder_name, match |-> ""]
                     /\ pc' = "get_puuid"
                     /\ UNCHANGED <<idx, disc, before>>
                ELSE IF AutoRefresh(refresh_user)
                THEN /\ frame' = [op |-> "refresh", who |-> folder_name, match |-> ""]
                     /\ before' = [matches_list |-> user_objects[folder_name].matches_list,
                                   identity |-> disk[folder_name].identity]
                     /\ disc' = DiscStart
                     /\ pc' = "listing"
                     /\ UNCHANGED <<player, idx>>
                ELSE /\ idx' = idx + 1
                     /\ pc' = "loop"
                     /\ UNCHANGED <<player, frame, disc, before>>
    /\ UNCHANGED <<mode, returned, refresh_user, request_count, runs, calls, disk, remote,
                   user_paths, user_objects, todo, log, err, discovered>>

\* User.get_puuid, called by User.__init__ for a summoner with no folder
GetPuuid ==
    /\ pc = "get_puuid"
    /\ \E status \in StatusCodes :
        /\ log' = Append(log, Event("account", frame.who, 0, 0, "", status))
        /\ IF status = StatusOk
           THEN /\ player' = [player EXCEPT !.puuid = PuuidOf(player.riot_id)]
                /\ disc' = DiscStart
                /\ pc' = "listing"
                /\ UNCHANGED <<user_paths, user_objects, idx, frame, todo, err>>
           ELSE Raise(Exception(status))
    /\ UNCHANGED <<mode, returned, refresh_user, request_count, runs, calls, disk, remote,
                   before, discovered>>

\* A file of a matchs folder written from its first byte to its last.
WrittenFile(match_id) == [name |-> MatchFileName(match_id), complete |-> TRUE]

\* open(saving_path, "w+"): the file exists under its final name, with no content yet
OpenedFile(match_id) == [name |-> MatchFileName(match_id), complete |-> FALSE]

\* The files of a folder once `file` is created or replaces the file of its name.
WithFile(files, file) == {g \in files : g.name # file.name} \cup {file}

\* User.fetch_match, from the response on: what it leaves in the matchs folder
fetch_match_files(files, match_id, status) ==
    IF status = StatusOk THEN WithFile(files, WrittenFile(match_id)) ELSE files

\* A fetch_match that takes a 404 for a failure.
fetch_match_raises_on_not_found(status) ==
    IF status = StatusOk THEN 0 ELSE status

\* A fetch_match that returns whatever the status.
fetch_match_raises_never(status) == 0

\* User.fetch_match: the status it raises an exception for, 0 when it returns
fetch_match_raises(status) ==
    IF status = StatusOk \/ status = StatusNotFound THEN 0 ELSE status

\* if request_count % 100 == 0 and request_count != 0
IsNapTime(count) == count % BatchSize = 0 /\ count # 0

\* The loop of fetch_collection_matchs over user_object.matches_list, from position
\* st.k on; statuses[k] is the response to the request for matches_list[k].
RECURSIVE FetchLoop(_, _, _, _, _)
FetchLoop(who, matches_list, unfetched_matchs, statuses, st) ==
    IF st.raised # 0 \/ st.k > Len(matches_list) THEN st
    ELSE LET match == matches_list[st.k]
             count == st.request_count + 1
             napped == IF IsNapTime(count)
                       THEN Append(st.log, Event("sleep", who, 0, 0, "", SleepSeconds))
                       ELSE st.log
         IN  IF match \notin ToSet(unfetched_matchs)
             THEN FetchLoop(who, matches_list, unfetched_matchs, statuses,
                            [st EXCEPT !.k = st.k + 1])
             ELSE FetchLoop(who, matches_list, unfetched_matchs, statuses,
                      [k |-> st.k + 1,
                       request_count |-> count,
                       log |-> Append(napped, Event("detail", who, 0, 0, match, statuses[st.k])),
                       files |-> fetch_match_files(st.files, match, statuses[st.k]),
                       raised |-> fetch_match_raises(statuses[st.k])])

\* Collection.fetch_collection_matchs for the next user of the roster: the two
\* folders, find_unfetched_matchs, and the loop over the user's matches. After the
\* last user main.py goes on to the aggregation, which the model does not follow.
FetchUser ==
    /\ mode = "main"
    /\ pc = "fetch"
    /\ IF todo = <<>>
       THEN /\ pc' = "done"
            /\ user_paths' = {}
            /\ user_objects' = NoObjects
            /\ UNCHANGED <<request_count, disk, player, idx, frame, disc, todo, log, err>>
       ELSE LET user == Head(todo)
                user_object == user_objects[user]
                folder == [disk[user] EXCEPT !.exists = TRUE, !.matchs = TRUE]
                unfetched_matchs == find_unfetched_matchs(user_object, folder)
            IN  IF unfetched_matchs.raised # ""
                THEN /\ disk' = [disk EXCEPT ![user] = folder]
                     /\ Raise([kind |-> unfetched_matchs.raised, status |-> 0])
                     /\ UNCHANGED <<request_count, log>>
                ELSE \E statuses \in [1..Len(user_object.matches_list) -> StatusCodes] :
                        LET end == FetchLoop(user, user_object.matches_list,
                                             unfetched_matchs.value, statuses,
                                             [k |-> 1, request_count |-> request_count,
                                              log |-> log, files |-> folder.files,
                                              raised |-> 0])
                        IN  /\ disk' = [disk EXCEPT ![user] = [folder EXCEPT !.files = end.files]]
                            /\ log' = end.log
                            /\ request_count' = end.request_count
                            /\ IF end.raised # 0
                               THEN Raise(Exception(end.raised))
                               ELSE /\ todo' = Tail(todo)
                                    /\ pc' = "fetch"
                                    /\ UNCHANGED <<user_paths, user_objects, player, idx,
                                                   frame, disc, err>>
    /\ UNCHANGED <<mode, returned, refresh_user, runs, calls, remote, before, discovered>>

(***************************************************************************)
(* The process: interruptions and new runs                                 *)
(***************************************************************************)
Running == {"loop", "get_puuid", "listing", "save_mkdir", "save_open", "save_dump",
            "reload", "fetch"}

\* The process is killed; what is on disk stays, the rest is lost.
Crash ==
    /\ mode = "main"
    /\ pc \in Running
    /\ pc' = "crashed"
    /\ user_paths' = {}
    /\ user_objects' = NoObjects
    /\ player' = NoUser
    /\ idx' = 0
    /\ frame' = NoFrame
    /\ disc' = NoDisc
    /\ todo' = <<>>
    /\ UNCHANGED <<mode, returned, refresh_user, request_count, runs, calls, disk, remote, log,
                   err, before, discovered>>

\* main.py is started again.
Restart ==
    /\ mode = "main"
    /\ pc \in {"done", "aborted", "crashed"}
    /\ runs < MaxRuns
    /\ runs' = runs + 1
    /\ pc' = "boot"
    /\ refresh_user' \in EnvValues
    /\ request_count' = 0
    /\ log' = <<>>
    /\ err' = NoError
    /\ before' = NoBefore
    /\ discovered' = NoDiscovery
    /\ UNCHANGED <<mode, returned, calls, disk, remote, user_paths, user_objects,
                   player, idx, frame, disc, todo>>

(***************************************************************************)
(* Runs of main.py                                                         *)
(***************************************************************************)
\* The known ids of a player none of whose matches is fetched yet.
Backlog == [k \in 1..MaxBacklog |-> Id(1000 + k)]

\* What a player's folder can hold when the first run starts: known ids A, B, C
\* with the record of A; known ids with a repetition and no matchs folder yet;
\* every known id fetched; a backlog with no record.
StoredFolders(h) ==
    {NoFolder,
     LoadedFolder(User(h, PuuidOf(h), Backlog), {}),
     LoadedFolder(User(h, PuuidOf(h), <<A, B, C>>), {WrittenFile(A)}),
     [LoadedFolder(User(h, PuuidOf(h), <<B, A, B>>), {}) EXCEPT !.matchs = FALSE],
     LoadedFolder(User(h, PuuidOf(h), <<C, A>>), {WrittenFile(A), WrittenFile(C)})}

\* The listings of a player: none, or three queues with an id listed twice.
ShortRemotes ==
    {EmptyRemote,
     [queue \in QueueSet |->
        IF queue = 400 THEN <<A, B>>
        ELSE IF queue = 420 THEN <<B>>
        ELSE IF queue = 450 THEN <<C>> ELSE <<>>]}

Init ==
    /\ mode = "main"
    /\ refresh_user \in EnvValues
    /\ request_count = 0
    /\ pc = "boot"
    /\ runs = 1
    /\ calls = 0
    /\ disk \in {d \in [FolderNames -> UNION {StoredFolders(h) : h \in Handles}] :
                    \A h \in Handles : d[FolderName(h)] \in StoredFolders(h)}
    /\ remote \in [FolderNames -> ShortRemotes]
    /\ user_paths = {}
    /\ user_objects = NoObjects
    /\ player = NoUser
    /\ idx = 0
    /\ frame = NoFrame
    /\ disc = NoDisc
    /\ todo = <<>>
    /\ log = <<>>
    /\ err = NoError
    /\ before = NoBefore
    /\ discovered = NoDiscovery
    /\ returned = NoReturn

Next ==
    \/ RefreshCollection
    \/ MainLoop
    \/ GetPuuid
    \/ ListingRequest
    \/ SaveMkdir
    \/ SaveOpen
    \/ SaveDump
    \/ FetchUser
    \/ Crash
    \/ Restart

Spec == Init /\ [][Next]_vars

(***************************************************************************)
(* Discovery as a client of the class sees it: one loaded player, a remote *)
(* with one long listing                                                   *)
(***************************************************************************)
F1 == FolderName(H1)
F2 == FolderName(H2)

\* The ids 1..n of a queue's listing.
Listing(queue, n) == [k \in 1..n |-> Id(queue * 1000 + k)]

\* A match the player has played and the remote lists no more.
Gone == Id(9)

\* Listing lengths around the page size.
LongTotals == {0, 37, FullPage, 2 * FullPage, 237, MaxListing}

\* One queue with a long listing; the queues of `some` list two ids, the rest none.
LongRemotes ==
    {[queue \in QueueSet |->
        IF queue = long THEN Listing(queue, n)
        ELSE IF queue \in some THEN Listing(queue, 2) ELSE <<>>] :
     long \in QueueSet, n \in LongTotals, some \in {{}, {420, 450}}}

KnownLists == {<<>>, <<Gone>>, <<Gone, Id(420001), Gone>>}

InitDiscovery ==
    /\ mode = "user"
    /\ refresh_user = PyNone
    /\ request_count = 0
    /\ pc = "idle"
    /\ runs = 1
    /\ calls = 0
    /\ \E known \in KnownLists, listings \in LongRemotes :
        /\ disk = [f \in FolderNames |->
                     IF f = F1 THEN LoadedFolder(User(H1, PuuidOf(H1), known), {})
                     ELSE NoFolder]
        /\ remote = [f \in FolderNames |-> IF f = F1 THEN listings ELSE EmptyRemote]
        /\ user_objects = [f \in {F1} |-> User(H1, PuuidOf(H1), known)]
    /\ user_paths = {F1}
    /\ player = NoUser
    /\ idx = 0
    /\ frame = NoFrame
    /\ disc = NoDisc
    /\ todo = <<>>
    /\ log = <<>>
    /\ err = NoError
    /\ before = NoBefore
    /\ discovered = NoDiscovery
    /\ returned = NoReturn

NextDiscovery ==
    \/ CallRefresh
    \/ CallSave
    \/ ListingRequest
    \/ SaveMkdir
    \/ SaveOpen
    \/ SaveDump

SpecDiscovery == InitDiscovery /\ [][NextDiscovery]_vars

(***************************************************************************)
(* The delta and fetch_match as a client of the class sees them: one       *)
(* loaded player and a matchs folder with any files                        *)
(***************************************************************************)
\* The client calls find_unfetched_matchs and keeps what comes back.
CallFindUnfetched ==
    /\ mode = "user" /\ pc = "idle" /\ calls < MaxCalls
    /\ \E who \in DOMAIN user_objects :
        LET result == find_unfetched_matchs(user_objects[who], disk[who])
        IN  /\ returned' = [called |-> TRUE, raised |-> result.raised,
                            value |-> result.value]
            /\ err' = [kind |-> result.raised, status |-> 0]
    /\ calls' = calls + 1
    /\ log' = <<>>
    /\ UNCHANGED <<mode, refresh_user, request_count, pc, runs, disk, remote,
                   user_paths, user_objects, player, idx, frame, disc, todo, before,
                   discovered>>

\* The client calls fetch_match for a match of the player's list: the request and,
\* on a 200, the open of the record file.
CallFetchMatch ==
    /\ mode = "user" /\ pc = "idle" /\ calls < MaxCalls
    /\ calls' = calls + 1
    /\ \E who \in DOMAIN user_objects, status \in StatusCodes :
        \E match_id \in KnownIds(user_objects[who]) :
            /\ disk[who].matchs
            /\ log' = <<Event("detail", who, 0, 0, match_id, status)>>
            /\ IF status = StatusOk
               THEN /\ disk' = [disk EXCEPT ![who].files = WithFile(@, OpenedFile(match_id))]
                    /\ frame' = [op |-> "fetch_match", who |-> who, match |-> match_id]
                    /\ pc' = "fetch_dump"
                    /\ err' = NoError
               ELSE /\ disk' = disk
                    /\ frame' = NoFrame
                    /\ pc' = "idle"
                    /\ err' = IF fetch_match_raises(status) = 0 THEN NoError
                              ELSE Exception(fetch_match_raises(status))
    /\ returned' = NoReturn
    /\ UNCHANGED <<mode, refresh_user, request_count, runs, remote,
                   user_paths, user_objects, player, idx, disc, todo, before, discovered>>

\* json.dump(req.json(), json_file) and the close of the file
FetchMatchDump ==
    /\ pc = "fetch_dump"
    /\ disk' = [disk EXCEPT ![frame.who].files =
                    fetch_match_files(@, frame.match, StatusOk)]
    /\ frame' = NoFrame
    /\ pc' = "idle"
    /\ UNCHANGED <<mode, returned, refresh_user, request_count, runs, calls, remote,
                   user_paths, user_objects, player, idx, disc, todo, log, err, before,
                   discovered>>

\* The process is killed while fetch_match writes.
Kill ==
    /\ mode = "user"
    /\ pc = "fetch_dump"
    /\ pc' = "crashed"
    /\ user_paths' = {}
    /\ user_objects' = NoObjects
    /\ frame' = NoFrame
    /\ returned' = NoReturn
    /\ UNCHANGED <<mode, refresh_user, request_count, runs, calls, disk, remote,
                   player, idx, disc, todo, log, err, before, discovered>>

\* A new process loads the roster again (refresh_collection).
Reopen ==
    /\ mode = "user"
    /\ pc = "crashed"
    /\ runs < MaxRuns
    /\ runs' = runs + 1
    /\ \A f \in RosterFolders : LoadError(disk[f]) = ""
    /\ user_paths' = RosterFolders
    /\ user_objects' = [f \in RosterFolders |-> load_from_json(disk[f].identity)]
    /\ pc' = "idle"
    /\ calls' = 0
    /\ log' = <<>>
    /\ err' = NoError
    /\ UNCHANGED <<mode, returned, refresh_user, request_count, disk, remote, player,
                   idx, frame, disc, todo, before, discovered>>

\* What the matchs folder can hold: records of A and B, and a file that is none.
StoredFiles == SUBSET {WrittenFile(A), WrittenFile(B), [name |-> "notes.txt", complete |-> TRUE]}

InitFetch ==
    /\ mode = "user"
    /\ refresh_user = PyNone
    /\ request_count = 0
    /\ pc = "idle"
    /\ runs = 1
    /\ calls = 0
    /\ \E known \in {<<A, B, C>>, <<B, A, B>>, <<C>>}, files \in StoredFiles,
          matchs \in BOOLEAN :
        /\ matchs \/ files = {}
        /\ {f.name : f \in files} \subseteq
               {MatchFileName(m) : m \in ToSet(known)} \cup {"notes.txt"}
        /\ disk = [f \in FolderNames |->
                     IF f = F1
                     THEN [LoadedFolder(User(H1, PuuidOf(H1), known), files)
                               EXCEPT !.matchs = matchs]
                     ELSE NoFolder]
        /\ user_objects = [f \in {F1} |-> User(H1, PuuidOf(H1), known)]
    /\ remote = [f \in FolderNames |-> EmptyRemote]
    /\ user_paths = {F1}
    /\ player = NoUser
    /\ idx = 0
    /\ frame = NoFrame
    /\ disc = NoDisc
    /\ todo = <<>>
    /\ log = <<>>
    /\ err = NoError
    /\ before = NoBefore
    /\ discovered = NoDiscovery
    /\ returned = NoReturn

NextFetch ==
    \/ CallFindUnfetched
    \/ CallFetchMatch
    \/ FetchMatchDump
    \/ Kill
    \/ Reopen

SpecFetch == InitFetch /\ [][NextFetch]_vars

(***************************************************************************)
(* Claims about discovery                                                  *)
(***************************************************************************)
\* C3: a player's known match ids only grow: no step of a discovery refresh,
\* successful or failed, removes an id from matches_list.
C3_KnownIdsOnlyGrow ==
    [][\A f \in DOMAIN user_objects :
          f \in DOMAIN user_objects'
              => KnownIds(user_objects[f]) \subseteq KnownIds(user_objects'[f])]_vars

\* A refresh has succeeded, has added ids, and has kept an id the remote lists
\* no more.
C3_Witness ==
    /\ pc = "idle" /\ err = NoError /\ log # <<>>
    /\ Gone \in ToSet(before.matches_list)
    /\ Gone \in KnownIds(user_objects[F1])
    /\ ToSet(before.matches_list) # KnownIds(user_objects[F1])

\* The start indexes requested for a queue, in the order of the requests.
StartsOf(queue) ==
    LET hits == SelectSeq(log, LAMBDA e : e.kind = "listing" /\ e.queue = queue)
    IN  [k \in 1..Len(hits) |-> hits[k].start]

\* What get_matches_by_queue has returned, queue by queue, in the call the log is of.
ResultsSoFar ==
    IF pc = "listing" THEN disc.results
    ELSE IF err = NoError /\ log # <<>> /\ discovered.who # "" THEN discovered.results
    ELSE <<>>

\* The player the call the log is of runs for.
LogWho == IF log = <<>> THEN "" ELSE log[1].who

\* C7: the enumeration of one queue starts at offset 0, asks for the page at
\* offset + 100 exactly when the page it got has 100 entries, stops at the first
\* shorter page, and returns the ids of all the pages: a listing of n ids takes
\* n \div 100 + 1 requests (237 ids: 3 requests, no id: 1 request).
C7_Pagination ==
    /\ \A k \in 1..Len(ResultsSoFar) :
        LET listing == remote[LogWho][Queues[k]]
        IN  /\ ResultsSoFar[k] = listing
            /\ StartsOf(Queues[k]) = [j \in 1..(Len(listing) \div 100 + 1) |-> (j - 1) * 100]
    /\ \A k \in 1..Len(log) :
        log[k].kind = "listing" =>
            /\ log[k].start % 100 = 0
            /\ log[k].start <= Len(remote[log[k].who][log[k].queue])

\* A queue listing 237 ids has been enumerated with 3 requests, and a queue
\* listing none with 1.
C7_Witness ==
    /\ pc = "idle" /\ err = NoError
    /\ \E k \in 1..Len(ResultsSoFar) :
        Len(ResultsSoFar[k]) = 237 /\ StartsOf(Queues[k]) = <<0, 100, 200>>
    /\ \E k \in 1..Len(ResultsSoFar) :
        Len(ResultsSoFar[k]) = 0 /\ StartsOf(Queues[k]) = <<0>>

\* C8: a discovery that succeeds returns the ids of the five queues 400, 420, 430,
\* 440 and 450 and no other, each queue's part being that queue's own enumeration
\* from offset 0.
C8_UnionOfQueues ==
    (pc # "listing" /\ err = NoError /\ log # <<>> /\ discovered.who # "") =>
        /\ ToSet(discovered.matches_list) =
               UNION {ToSet(remote[discovered.who][queue]) :
                          queue \in {400, 420, 430, 440, 450}}
        /\ Len(discovered.results) = 5
        /\ \A k \in 1..5 :
            /\ discovered.results[k] = remote[discovered.who][Queues[k]]
            /\ StartsOf(Queues[k])[1] = 0
        /\ Len(discovered.matches_list) =
               Len(discovered.results[1]) + Len(discovered.results[2])
               + Len(discovered.results[3]) + Len(discovered.results[4])
               + Len(discovered.results[5])

\* A discovery has returned the ids of three queues, one of them of several pages.
C8_Witness ==
    /\ pc = "idle" /\ err = NoError /\ log # <<>> /\ discovered.who # ""
    /\ Len(discovered.results[2]) = 2
    /\ Len(discovered.results[3]) > 100
    /\ Len(discovered.results[5]) = 2
    /\ Len(discovered.matches_list) = Len(discovered.results[3]) + 4

\* C9: a refresh in which a listing request is answered with a status other than
\* 200 ends at that request with an exception, and leaves matches_list and
\* identity.json as they were when the refresh was called.
C9_AllOrNothing ==
    \A k \in 1..Len(log) :
        (log[k].kind = "listing" /\ log[k].status # 200) =>
            /\ k = Len(log)
            /\ err = Exception(log[k].status)
            /\ pc = "idle"
            /\ user_objects[log[k].who].matches_list = before.matches_list
            /\ disk[log[k].who].identity = before.identity

\* A refresh has failed at the second page of the fourth queue, after the second
\* queue had returned ids the player did not know.
C9_Witness ==
    /\ pc = "idle" /\ err.kind = "Exception" /\ log # <<>>
    /\ log[Len(log)].queue = 440 /\ log[Len(log)].start = 100
    /\ Len(remote[log[1].who][420]) = 2
    /\ ~(ToSet(remote[log[1].who][420]) \subseteq ToSet(before.matches_list))
    /\ user_objects[log[1].who].matches_list = before.matches_list

(***************************************************************************)
(* Claims about the delta and the fetch phase                              *)
(***************************************************************************)
\* The match ids the model can meet in a matchs folder.
AllIds == {MatchIdOf(p, n) : p \in FilePrefixes, n \in FileNumbers}

\* The match ids with a record file in a player folder.
FetchedIds(folder) == {m \in AllIds : MatchFileName(m) \in FileNames(folder)}

\* The match ids identity.json keeps for a player.
SavedIds(folder) ==
    IF folder.identity.state = "ok" THEN ToSet(folder.identity.matches_list) ELSE {}

\* The match ids requested from the detail endpoint for a player, in order.
DetailRequests(who) ==
    LET hits == SelectSeq(log, LAMBDA e : e.kind = "detail" /\ e.who = who)
    IN  [k \in 1..Len(hits) |-> hits[k].match]

\* Every request of the run so far was answered 200.
NoRequestFailed == \A k \in 1..Len(log) : log[k].kind # "sleep" => log[k].status = StatusOk

\* The number of detail requests among the first k entries of the log.
Counted(k) == Cardinality({j \in 1..k : log[j].kind = "detail"})

\* C1: every match id with a record file in a player's matchs folder is one of
\* the player's known match ids, those of identity.json and those of the loaded
\* User object.
C1_FetchedAreKnown ==
    \A f \in FolderNames :
        /\ FetchedIds(disk[f]) \subseteq SavedIds(disk[f])
        /\ f \in DOMAIN user_objects =>
               FetchedIds(disk[f]) \subseteq KnownIds(user_objects[f])

\* In a second run the roster is loaded, with a player who has the record of A and
\* not that of B, and a player the first run created; the fetch phase has started.
C1_Witness ==
    /\ runs = 2 /\ pc = "fetch"
    /\ \E f \in DOMAIN user_objects :
        /\ A \in FetchedIds(disk[f])
        /\ B \in KnownIds(user_objects[f]) \ FetchedIds(disk[f])
    /\ \E f \in DOMAIN user_objects :
        /\ FetchedIds(disk[f]) = {}
        /\ disk[f].identity.matches_list = <<A, B, B, C>>

\* C2: find_unfetched_matchs returns the player's known match ids less those with
\* a record file in the matchs folder (stated for a matchs folder that exists).
C2_DeltaIsKnownLessFetched ==
    \A f \in DOMAIN user_objects :
        (returned.called /\ disk[f].matchs) =>
            /\ returned.raised = ""
            /\ ToSet(returned.value) =
                   KnownIds(user_objects[f]) \ AlreadyFetchedFiles(disk[f])

\* C4: with known ids A, B, C, the record of A on disk and no request failing, a
\* first run that has ended has requested B then C for the player, and nothing
\* else, and the three records are on disk.
C4_ResumesWithBThenC ==
    \A f \in FolderNames :
        ( /\ runs = 1 /\ pc \in {"done", "aborted"}
          /\ disk[f].identity.state = "ok"
          /\ disk[f].identity.matches_list = <<A, B, C>>
          /\ WrittenFile(A) \in disk[f].files
          /\ NoRequestFailed )
        => /\ DetailRequests(f) = <<B, C>>
           /\ {A, B, C} \subseteq FetchedIds(disk[f])

\* C6: once the process has been killed while fetch_match wrote the record of a
\* match, the file it leaves does not count as fetched, and the next delta holds
\* the match.
C6_PartialRecordIsUnfetched ==
    \A f \in FolderNames : \A m \in AllIds :
        ( /\ pc \in {"crashed", "idle"}
          /\ OpenedFile(m) \in disk[f].files )
        => /\ m \notin AlreadyFetchedFiles(disk[f])
           /\ (returned.called /\ f \in DOMAIN user_objects) =>
                  (returned.raised = "" /\ m \in ToSet(returned.value))

\* C5: no detail request is issued for a player's match whose record file is in
\* the matchs folder when the request is sent.
C5_NoRequestForFetchedRecord ==
    [][ (log' # log /\ log' # <<>> /\ log'[Len(log')].kind = "detail")
        => MatchFileName(log'[Len(log')].match)
               \notin FileNames(disk[log'[Len(log')].who]) ]_vars

\* C10: a first run that has ended with no request failing, for a player with a
\* backlog of known matches and no record, has requested the whole backlog, and a
\* pause sits after every request numbered 100k that has a successor and nowhere
\* else.
C10_PauseAfterEveryHundred ==
    \A f \in FolderNames :
        ( /\ runs = 1 /\ pc \in {"done", "aborted"}
          /\ disk[f].identity.state = "ok"
          /\ disk[f].identity.matches_list = Backlog
          /\ NoRequestFailed )
        => /\ DetailRequests(f) = Backlog
           /\ \A k \in 1..Len(log) :
                  log[k].kind = "sleep" <=>
                      /\ 1 < k /\ k < Len(log)
                      /\ log[k - 1].kind = "detail" /\ log[k + 1].kind = "detail"
                      /\ Counted(k) > 0 /\ Counted(k) % BatchSize = 0
           /\ \A k \in 2..Len(log) :
                  (log[k].kind = "detail" /\ Counted(k - 1) > 0
                      /\ Counted(k - 1) % BatchSize = 0)
                  => log[k - 1].kind = "sleep"

(***************************************************************************)
(* Claims about the request counter, the responses and the roster loop     *)
(***************************************************************************)
\* The number of listing and detail requests the run has sent so far.
OutgoingRequests ==
    Cardinality({k \in 1..Len(log) : log[k].kind \in {"listing", "detail"}})

\* C11: in the fetch phase the counter of fetch_collection_matchs holds the number
\* of listing and detail requests the run has sent.
C11_CounterCountsEveryRequest ==
    (mode = "main" /\ pc = "fetch") => request_count = OutgoingRequests

C13_ThrottledRequestIsRetried ==
    (err.kind = "Exception" /\ err.status = StatusRateLimited)
    => /\ Len(log) >= 3
       /\ log[Len(log) - 1].kind = "sleep"
       /\ log[Len(log) - 2] = log[Len(log)]
       /\ log[Len(log)].status = StatusRateLimited

\* The last entry of the log is a detail request answered by `status`, sent by the
\* call that has just returned or is in progress.
LastDetail(status) ==
    /\ log # <<>>
    /\ log[Len(log)].kind = "detail"
    /\ log[Len(log)].status = status

C15_NotFoundIsNeverRequestedAgain ==
    [][ (mode = "user" /\ LastDetail(StatusNotFound) /\ calls' = calls + 1
            /\ log' # <<>> /\ log'[Len(log')].kind = "detail")
        => \/ log'[Len(log')].who # log[Len(log)].who
           \/ log'[Len(log')].match # log[Len(log)].match ]_vars

\* C16: a call of fetch_match whose detail request is answered by a status other
\* than 200 and 404 raises an exception carrying that status and leaves every file
\* as it was.
C16_UpstreamErrorRaises ==
    [][ (mode = "user" /\ calls' = calls + 1
            /\ log' # <<>> /\ log'[Len(log')].kind = "detail"
            /\ log'[Len(log')].status \notin {StatusOk, StatusNotFound})
        => /\ err' = Exception(log'[Len(log')].status)
           /\ disk' = disk
           /\ pc' = "idle" ]_vars

\* fetch_match has raised on a 500 for a match whose record is on disk, complete.
C16_Witness ==
    /\ mode = "user" /\ pc = "idle" /\ calls >= 1
    /\ LastDetail(StatusServerError)
    /\ err = Exception(StatusServerError)
    /\ WrittenFile(log[Len(log)].match) \in disk[log[Len(log)].who].files

\* No account or listing request of the run so far has failed.
NoCreationFailed ==
    \A k \in 1..Len(log) :
        log[k].kind \in {"account", "listing"} => log[k].status = StatusOk

\* C17: a first run that has ended, whatever the answers to its detail requests,
\* has sent a detail request for every player who had an unfetched match.
C17_EveryPlayerIsFetched ==
    ( /\ mode = "main" /\ runs = 1 /\ pc \in {"done", "aborted"}
      /\ NoCreationFailed )
    => \A f \in FolderNames :
           ( /\ disk[f].identity.state = "ok"
             /\ SavedIds(disk[f]) \ FetchedIds(disk[f]) # {} )
           => DetailRequests(f) # <<>>

\* The account request for the player of folder f has failed in this run.
ResolutionFailed(f) ==
    \E k \in 1..Len(log) :
        log[k].kind = "account" /\ log[k].who = f /\ log[k].status # StatusOk

\* C18: a first run that has ended with no failure but of account requests leaves
\* an identity on disk for every configured handle whose account request did not
\* fail.
C18_ResolutionFailureIsIsolated ==
    ( /\ mode = "main" /\ runs = 1 /\ pc \in {"done", "aborted"}
      /\ \A k \in 1..Len(log) : log[k].kind = "listing" => log[k].status = StatusOk )
    => \A f \in FolderNames :
           ~ResolutionFailed(f) => disk[f].identity.state = "ok"

\* C19: a load of the roster sends no request and gives every player the riot id,
\* the uid and the known ids of the player's identity.json; an account request is
\* sent only for a handle that has no identity.json a load can read.
C19_LoadIsLocalAndExact ==
    [][ /\ (mode = "main" /\ pc \in {"boot", "reload"} /\ pc' \in {"loop", "fetch"})
           => /\ log' = log
              /\ \A f \in DOMAIN user_objects' :
                    /\ disk[f].identity.state = "ok"
                    /\ user_objects'[f].riot_id = disk[f].identity.riot_id
                    /\ user_objects'[f].puuid = disk[f].identity.puuid
                    /\ user_objects'[f].matches_list = disk[f].identity.matches_list
        /\ (log' # log /\ log' # <<>> /\ log'[Len(log')].kind = "account")
           => disk[log'[Len(log')].who].identity.state # "ok" ]_vars

\* A player with known ids is loaded from disk while the identity of the other
\* handle, which has none on disk, is being resolved.
C19_Witness ==
    /\ mode = "main" /\ pc = "listing"
    /\ F1 \in DOMAIN user_objects
    /\ user_objects[F1].matches_list = <<A, B, C>>
    /\ user_objects[F1].puuid = PuuidOf(H1)
    /\ log # <<>> /\ log[Len(log)].kind = "account" /\ log[Len(log)].who = F2
    /\ disk[F2].identity.state = "absent"

\* The requests of player f sent so far have been followed by a request of
\* another player.
Overtaken(f) ==
    \E i, j \in 1..Len(log) : i < j /\ log[i].who = f /\ log[j].who # f

\* C20: the requests of a run are sent player after player, never going back to an
\* earlier player, and nothing is written in a player's folder once a request of
\* another player has followed that player's requests.
C20_OnePlayerAtATime ==
    [][ /\ \A f \in FolderNames : disk'[f] # disk[f] => ~Overtaken(f)
        /\ (log' # log /\ log' # <<>>) => ~Overtaken(log'[Len(log')].who) ]_vars

(***************************************************************************)
(* Claims about refresh, save and creation                                 *)
(***************************************************************************)
\* The run has sent a request of this kind for the player of folder f.
Requested(kind, f) ==
    \E k \in 1..Len(log) : log[k].kind = kind /\ log[k].who = f

\* C21: when the fetch phase of a run starts, a listing request has been sent for
\* every player of the roster that the run did not create.
C21_RosterPlayersAreRefreshed ==
    (mode = "main" /\ pc = "fetch")
    => \A f \in user_paths : ~Requested("account", f) => Requested("listing", f)

\* The exceptions load_from_json raises on a missing or truncated identity.json.
LoadErrors == {"FileNotFoundError", "JSONDecodeError"}

\* C22: whatever interrupted the runs before it, the roster load of a run does not
\* raise for want of a complete identity.json.
C22_SaveIsCrashAtomic ==
    mode = "main" => ~(pc = "aborted" /\ err.kind \in LoadErrors)

\* C23: a first run that has ended with no request failing has left, for every
\* handle it created, an identity on disk and a record for each of its known ids.
C23_CreatedPlayerIsFetched ==
    ( /\ mode = "main" /\ runs = 1 /\ pc \in {"done", "aborted"}
      /\ NoRequestFailed )
    => \A f \in FolderNames :
           Requested("account", f)
           => /\ disk[f].identity.state = "ok"
              /\ SavedIds(disk[f]) \subseteq FetchedIds(disk[f])

\* The fetch phase has started with a player the run created in its roster.
C23_RosterHoldsCreatedPlayer ==
    /\ mode = "main" /\ pc = "fetch"
    /\ \E f \in user_paths :
        /\ Requested("account", f)
        /\ f \in DOMAIN user_objects
        /\ user_objects[f].matches_list = <<A, B, B, C>>

\* The run has started to create the player of folder f and one of the account or
\* listing requests of that creation has failed.
CreationFailed(f) ==
    /\ Requested("account", f)
    /\ \E k \in 1..Len(log) :
        /\ log[k].who = f
        /\ log[k].kind \in {"account", "listing"}
        /\ log[k].status # StatusOk

\* C24: a handle whose creation has failed in this run has no folder and no
\* identity file on disk.
C24_FailedCreationWritesNothing ==
    mode = "main" => \A f \in FolderNames : CreationFailed(f) => disk[f] = NoFolder

\* A creation has failed on a listing request after a page with match ids was
\* received, the run has ended on it and the handle has no folder.
C24_Witness ==
    /\ mode = "main" /\ pc = "aborted" /\ err.kind = "Exception"
    /\ \E f \in FolderNames :
        /\ CreationFailed(f)
        /\ \E i, k \in 1..Len(log) :
            /\ i < k
            /\ log[i].who = f /\ log[i].kind = "listing" /\ log[i].status = StatusOk
            /\ remote[f][log[i].queue] # <<>>
            /\ log[k].who = f /\ log[k].kind = "listing" /\ log[k].status # StatusOk
        /\ disk[f] = NoFolder

====
